---- MODULE Spec2Model ----
(***************************************************************************)
(* cronrecon: a crontab line (CronJob) is parsed into five sorted lists of *)
(* integers, and CronJob.next_run computes a date from them in four        *)
(* passes (minute, hour, day, month).                                       *)
(*                                                                           *)
(* A text is a sequence of one-character strings, so that split, slicing   *)
(* and int() are computed as Python computes them.  A datetime is a record *)
(* [year, month, day, hour, minute, second, microsecond].  A call that can *)
(* raise returns a record whose field exc is "" or the exception's name.    *)
(*                                                                           *)
(* The file is Python 2 (filter and range return lists); assert statements *)
(* are executed.  Every try of next_run catches Exception, so a NameError  *)
(* or a ValueError raised inside it takes the except branch.                *)
(***************************************************************************)
EXTENDS Integers, Sequences, FiniteSets

(* ------------------------------------------------------------------ *)
(* Class constants, src/cronrecon.py lines 14-23.                      *)
(* ------------------------------------------------------------------ *)
MAX_MINUTE == 60
MIN_MINUTE == 0
MAX_MONTH == 13
MIN_MONTH == 1
MAX_HOUR == 24
MIN_HOUR == 0
MAX_DOM == 32
MIN_DOM == 1
MAX_DOW == 7
MIN_DOW == 0

(* ------------------------------------------------------------------ *)
(* Python built-ins used by the parser.                                *)
(* ------------------------------------------------------------------ *)
DigitChars == <<"0", "1", "2", "3", "4", "5", "6", "7", "8", "9">>

IsDigit(c) == \E i \in 1..10 : DigitChars[i] = c

DigitVal(c) == (CHOOSE i \in 1..10 : DigitChars[i] = c) - 1

\* The characters str.strip() and int() treat as whitespace: space, tab,
\* line feed, carriage return, form feed and vertical tab (the last one
\* written as the character itself).
IsSpace(c) == c \in {" ", "\t", "\n", "\r", "\f", ""}

\* range(a, b) as a list
Range(a, b) == [i \in 1..(IF b > a THEN b - a ELSE 0) |-> a + i - 1]

\* c in s / sub in s for texts
HasChar(s, c) == \E i \in 1..Len(s) : s[i] = c

HasSub(s, sub) ==
    \E i \in 1..(Len(s) - Len(sub) + 1) : SubSeq(s, i, i + Len(sub) - 1) = sub

\* s.split(c) for a one-character separator c: always at least one piece
RECURSIVE Split(_, _)
Split(s, c) ==
    IF ~HasChar(s, c) THEN <<s>>
    ELSE LET i == CHOOSE k \in 1..Len(s) :
                     s[k] = c /\ \A j \in 1..(k - 1) : s[j] # c
         IN <<SubSeq(s, 1, i - 1)>> \o Split(SubSeq(s, i + 1, Len(s)), c)

\* s.strip()
RECURSIVE LStrip(_)
LStrip(s) == IF s # <<>> /\ IsSpace(s[1]) THEN LStrip(Tail(s)) ELSE s

RECURSIVE RStrip(_)
RStrip(s) ==
    IF s # <<>> /\ IsSpace(s[Len(s)]) THEN RStrip(SubSeq(s, 1, Len(s) - 1)) ELSE s

Strip(s) == LStrip(RStrip(s))

\* ' '.join(pieces)
RECURSIVE JoinSp(_)
JoinSp(pieces) ==
    IF pieces = <<>> THEN <<>>
    ELSE IF Len(pieces) = 1 THEN pieces[1]
    ELSE pieces[1] \o <<" ">> \o JoinSp(Tail(pieces))

\* filter(None, pieces): the non-empty pieces, in order
RECURSIVE FilterNonEmpty(_)
FilterNonEmpty(pieces) ==
    IF pieces = <<>> THEN <<>>
    ELSE IF pieces[1] = <<>> THEN FilterNonEmpty(Tail(pieces))
    ELSE <<pieces[1]>> \o FilterNonEmpty(Tail(pieces))

\* the value of a non-empty run of decimal digits
RECURSIVE DigitsValue(_)
DigitsValue(s) ==
    IF s = <<>> THEN 0
    ELSE 10 * DigitsValue(SubSeq(s, 1, Len(s) - 1)) + DigitVal(s[Len(s)])

\* int(s): surrounding whitespace is dropped, then one optional sign and the
\* whitespace after it, then one or more decimal digits; anything else
\* raises ValueError.
IsSigned(t) == t # <<>> /\ t[1] \in {"+", "-"}

PyIntDigits(negative, body) ==
    IF body # <<>> /\ \A i \in 1..Len(body) : IsDigit(body[i])
    THEN [exc |-> "",
          val |-> IF negative THEN 0 - DigitsValue(body) ELSE DigitsValue(body)]
    ELSE [exc |-> "ValueError", val |-> 0]

PyIntStripped(t) ==
    IF IsSigned(t) THEN PyIntDigits(t[1] = "-", LStrip(Tail(t)))
    ELSE PyIntDigits(FALSE, t)

PyInt(s) == PyIntStripped(Strip(s))

\* list[::k] for k # 0
SliceStep(list, k) ==
    LET n == Len(list)
        cnt == IF n = 0 THEN 0
               ELSE IF k > 0 THEN (n - 1) \div k + 1
               ELSE (n - 1) \div (0 - k) + 1
    IN [i \in 1..cnt |-> IF k > 0 THEN list[1 + (i - 1) * k]
                         ELSE list[n + (i - 1) * k]]

IsAscending(list) == \A i \in 1..(Len(list) - 1) : list[i] <= list[i + 1]

\* sorted(list): the stable ascending order, duplicates kept.  A list in
\* order is returned as it is; otherwise an element's place is one more than
\* the number of elements that go before it.
Sorted(list) ==
    IF IsAscending(list) THEN list
    ELSE LET n == Len(list)
             place == [i \in 1..n |->
                          1 + Cardinality({j \in 1..n :
                                  \/ list[j] < list[i]
                                  \/ list[j] = list[i] /\ j < i})]
         IN [k \in 1..n |-> list[CHOOSE i \in 1..n : place[i] = k]]

(* ------------------------------------------------------------------ *)
(* CronJob.parse: finish_parse and start_parse.                        *)
(* ------------------------------------------------------------------ *)
\* A range A-B (lines 62-64), a and b being int(vals[0]) and int(vals[1]):
\* a malformed bound raises ValueError.
finish_range(cron_list, a, b) ==
    IF a.exc # "" \/ b.exc # "" THEN [exc |-> "ValueError", list |-> cron_list]
    ELSE [exc |-> "", list |-> cron_list \o Range(a.val, b.val + 1)]

finish_dash(cron_list, vals) ==
    finish_range(cron_list, PyInt(vals[1]), PyInt(vals[2]))

\* A lone integer (lines 66-69), v being int(cron_str): a malformed one is
\* logged and dropped.
finish_int(cron_list, v) ==
    IF v.exc # "" THEN [exc |-> "", list |-> cron_list]
    ELSE [exc |-> "", list |-> Append(cron_list, v.val)]

\* One piece without a comma (lines 61-69)
finish_piece(cron_str, cron_list, max_value) ==
    IF HasChar(cron_str, "-") THEN finish_dash(cron_list, Split(cron_str, "-"))
    ELSE finish_int(cron_list, PyInt(cron_str))

\* The loop over the pieces of a comma list (lines 59-60); the first
\* exception ends it.
RECURSIVE finish_pieces(_, _, _)
finish_rest(r, pieces, max_value) ==
    IF r.exc # "" THEN r ELSE finish_pieces(pieces, r.list, max_value)

finish_pieces(pieces, cron_list, max_value) ==
    IF pieces = <<>> THEN [exc |-> "", list |-> cron_list]
    ELSE finish_rest(finish_piece(pieces[1], cron_list, max_value),
                     Tail(pieces), max_value)

finish_parse(cron_str, cron_list, max_value) ==
    IF HasChar(cron_str, ",")
    THEN finish_pieces(Split(cron_str, ","), cron_list, max_value)
    ELSE finish_piece(cron_str, cron_list, max_value)

\* The step branch (lines 78-80), freq being int(field_str[2:]): a
\* malformed step and a slice step of zero both raise ValueError.
step_list(min_value, max_value, freq) ==
    IF freq.exc # "" \/ freq.val = 0 THEN [exc |-> "ValueError", list |-> <<>>]
    ELSE [exc |-> "", list |-> SliceStep(Range(min_value, max_value), freq.val)]

\* The body of start_parse up to its return: the list before sorting
\* (lines 72-84)
start_parse_list(field_str, min_value, max_value) ==
    IF field_str = <<"*">>
    THEN [exc |-> "", list |-> Range(min_value, max_value)]
    ELSE IF HasSub(field_str, <<"*", "/">>)
    THEN step_list(min_value, max_value,
                   PyInt(SubSeq(field_str, 3, Len(field_str))))
    ELSE finish_parse(field_str, <<>>, max_value)

\* return sorted(cron_list), line 86
sorted_result(r) ==
    IF r.exc # "" THEN r ELSE [exc |-> "", list |-> Sorted(r.list)]

\* start_parse with its return value left unsorted
start_parse_no_sort(field_str, min_value, max_value) ==
    start_parse_list(field_str, min_value, max_value)

start_parse(field_str, min_value, max_value) ==
    sorted_result(start_parse_list(field_str, min_value, max_value))

\* The attributes before parse() has run (lines 29-41), None being <<>>
Unparsed(raw_string) ==
    [raw_string |-> raw_string, minute |-> <<>>, hour |-> <<>>,
     dom |-> <<>>, month |-> <<>>, dow |-> <<>>, action |-> <<>>,
     cron_months |-> <<>>, cron_minutes |-> <<>>,
     cron_hours |-> <<>>, cron_dom |-> <<>>, cron_dow |-> <<>>]

\* Lines 90-107 once the five lists are built; the first exception of a
\* start_parse ends the construction.
parse_lists(raw_string, fields, mo, mi, ho, dm, dw) ==
    IF mo.exc # "" \/ mi.exc # "" \/ ho.exc # "" \/ dm.exc # "" \/ dw.exc # ""
    THEN [exc |-> "ValueError", self |-> Unparsed(raw_string)]
    ELSE [exc |-> "",
          self |->
            [raw_string |-> raw_string,
             minute |-> fields[1], hour |-> fields[2],
             dom |-> fields[3], month |-> fields[4], dow |-> fields[5],
             action |-> Strip(JoinSp(SubSeq(fields, 6, Len(fields)))),
             cron_months |-> mo.list, cron_minutes |-> mi.list,
             cron_hours |-> ho.list, cron_dom |-> dm.list,
             cron_dow |-> dw.list]]

\* Lines 90-107: fewer than five fields raise IndexError; the lists are
\* built months first.
parse_fields(raw_string, fields) ==
    IF Len(fields) < 5 THEN [exc |-> "IndexError", self |-> Unparsed(raw_string)]
    ELSE parse_lists(raw_string, fields,
                     start_parse(fields[4], MIN_MONTH, MAX_MONTH),
                     start_parse(fields[1], MIN_MINUTE, MAX_MINUTE),
                     start_parse(fields[2], MIN_HOUR, MAX_HOUR),
                     start_parse(fields[3], MIN_DOM, MAX_DOM),
                     start_parse(fields[5], MIN_DOW, MAX_DOW))

\* CronJob.parse (lines 51-107): the line is split on single spaces and the
\* empty pieces are dropped; the first five pieces are the fields and the
\* rest is the action.
parse(raw_string) ==
    parse_fields(raw_string, FilterNonEmpty(Split(raw_string, " ")))

(* ------------------------------------------------------------------ *)
(* datetime, timedelta and calendar, as next_run uses them.            *)
(* ------------------------------------------------------------------ *)
isleap(year) == year % 4 = 0 /\ (year % 100 # 0 \/ year % 400 = 0)

DaysInMonthTable == <<31, 28, 31, 30, 31, 30, 31, 31, 30, 31, 30, 31>>

DaysBeforeMonthTable == <<0, 31, 59, 90, 120, 151, 181, 212, 243, 273, 304, 334>>

\* the days of a month as datetime counts them
DaysInMonth(year, month) ==
    IF month = 2 /\ isleap(year) THEN 29 ELSE DaysInMonthTable[month]

\* calendar.monthrange without the leap day
monthrange_days_no_leap(year, month) == DaysInMonthTable[month]

\* calendar.monthrange(year, month)[-1], line 162
monthrange_days(year, month) ==
    DaysInMonthTable[month] + (IF month = 2 /\ isleap(year) THEN 1 ELSE 0)

DaysBeforeYear(year) ==
    (year - 1) * 365 + (year - 1) \div 4 - (year - 1) \div 100
    + (year - 1) \div 400

DaysBeforeMonth(year, month) ==
    DaysBeforeMonthTable[month] + (IF month > 2 /\ isleap(year) THEN 1 ELSE 0)

\* date.toordinal(): 1 is 0001-01-01
toordinal(dt) ==
    DaysBeforeYear(dt.year) + DaysBeforeMonth(dt.year, dt.month) + dt.day

\* date.fromordinal: the 400-, 100-, 4- and 1-year cycles of n0 = ordinal - 1
OrdinalCycles(n0) ==
    LET n100 == (n0 % 146097) \div 36524
        r100 == (n0 % 146097) % 36524
        n1 == ((r100 % 1461)) \div 365
    IN [year |-> (n0 \div 146097) * 400 + 1 + n100 * 100
                 + (r100 \div 1461) * 4 + n1,
        n |-> (r100 % 1461) % 365,
        last |-> n1 = 4 \/ n100 = 4]

MonthOfYearDay(year, n) ==
    CHOOSE m \in 1..12 :
        /\ DaysBeforeMonth(year, m) <= n
        /\ n < DaysBeforeMonth(year, m) + DaysInMonth(year, m)

DateInMonth(year, month, n) ==
    [year |-> year, month |-> month, day |-> n - DaysBeforeMonth(year, month) + 1]

DateOfCycles(c) ==
    IF c.last THEN [year |-> c.year - 1, month |-> 12, day |-> 31]
    ELSE DateInMonth(c.year, MonthOfYearDay(c.year, c.n), c.n)

\* date.fromordinal(ordinal): year, month and day
fromordinal(ordinal) == DateOfCycles(OrdinalCycles(ordinal - 1))

\* datetime.weekday(): Monday is 0, Sunday is 6
weekday(dt) == (toordinal(dt) + 6) % 7

WithDate(dt, d) == [dt EXCEPT !.year = d.year, !.month = d.month, !.day = d.day]

\* datetime.MINYEAR and datetime.MAXYEAR
MINYEAR == 1

MAXYEAR == 9999

\* the ordinals of 0001-01-01 and of 9999-12-31
MinOrdinal == 1

MaxOrdinal == DaysBeforeYear(MAXYEAR + 1)

\* The date of an ordinal the addition produced: OverflowError outside the
\* years datetime has, in which case dt is left as it was.
DateAt(dt, ordinal) ==
    IF ordinal < MinOrdinal \/ ordinal > MaxOrdinal
    THEN [exc |-> "OverflowError", dt |-> dt]
    ELSE [exc |-> "", dt |-> WithDate(dt, fromordinal(ordinal))]

\* dt + datetime.timedelta(days=n)
AddDays(dt, n) == DateAt(dt, toordinal(dt) + n)

HourZero(r) == IF r.exc # "" THEN r ELSE [r EXCEPT !.dt.hour = 0]

\* dt + datetime.timedelta(hours=1)
AddHour(dt) ==
    IF dt.hour + 1 < 24 THEN [exc |-> "", dt |-> [dt EXCEPT !.hour = dt.hour + 1]]
    ELSE HourZero(AddDays(dt, 1))

\* The datetime constructor's check of its fields, which replace() runs
\* again on the changed value: ValueError outside the ranges.
ValidDatetime(dt) ==
    /\ dt.year \in MINYEAR..MAXYEAR
    /\ dt.month \in 1..12
    /\ dt.day \in 1..DaysInMonth(dt.year, dt.month)
    /\ dt.hour \in 0..23
    /\ dt.minute \in 0..59
    /\ dt.second \in 0..59
    /\ dt.microsecond \in 0..999999

\* the order of datetimes
DtTuple(dt) ==
    <<dt.year, dt.month, dt.day, dt.hour, dt.minute, dt.second, dt.microsecond>>

TupleLess(a, b) ==
    \E i \in 1..7 : a[i] < b[i] /\ \A j \in 1..(i - 1) : a[j] = b[j]

DtLess(a, b) == TupleLess(DtTuple(a), DtTuple(b))

(* ------------------------------------------------------------------ *)
(* CronJob.next_run: the four passes.                                  *)
(* ------------------------------------------------------------------ *)
\* next(i for i in list1 if i in list2); StopIteration when there is none
first_common_value(list1, list2) ==
    LET hits == {i \in 1..Len(list1) :
                     \E j \in 1..Len(list2) : list2[j] = list1[i]}
    IN IF hits = {} THEN [exc |-> "StopIteration", val |-> 0]
       ELSE [exc |-> "",
             val |-> list1[CHOOSE i \in hits : \A k \in hits : i <= k]]

InList(x, list) == \E i \in 1..Len(list) : list[i] = x

\* list[0], with 0 standing for the value an empty list does not have
First(list) == IF list = <<>> THEN 0 ELSE list[1]

\* list[0] followed by a replace() giving changed: IndexError on an empty
\* list, ValueError when changed is not a valid datetime.
ReplaceWithFirst(list, changed) ==
    IF list = <<>> THEN [exc |-> "IndexError", dt |-> changed]
    ELSE IF ~ValidDatetime(changed) THEN [exc |-> "ValueError", dt |-> changed]
    ELSE [exc |-> "", dt |-> changed]

\* Line 128 after line 127 gave moved: the OverflowError of the addition
\* comes before anything line 128 raises.
first_minute(moved, cron_minutes) ==
    IF moved.exc # "" THEN moved
    ELSE ReplaceWithFirst(cron_minutes,
             [moved.dt EXCEPT !.minute = First(cron_minutes)])

\* The except branch of set_next_minute (lines 127-128): one hour later, at
\* the list's first minute.
next_hour_first_minute(start_dt, cron_minutes) ==
    first_minute(AddHour(start_dt), cron_minutes)

\* Lines 120-128, r being the outcome of first_common_value.  Line 124
\* calls replace_minute, a name the file never defines: when the first
\* matching minute is not the current one the call raises NameError inside
\* the try, and the except branch runs exactly as when no minute matches.
minute_choice(start_dt, cron_minutes, r) ==
    IF r.exc = "" /\ r.val = start_dt.minute THEN [exc |-> "", dt |-> start_dt]
    ELSE next_hour_first_minute(start_dt, cron_minutes)

\* set_next_minute (lines 118-130)
set_next_minute(start_dt, cron_minutes) ==
    minute_choice(start_dt, cron_minutes,
        first_common_value(Range(start_dt.minute, MAX_MINUTE), cron_minutes))

\* Line 142 after line 141 gave moved: the OverflowError of the addition
\* comes before anything line 142 raises.
first_hour(moved, cron_hours) ==
    IF moved.exc # "" THEN moved
    ELSE ReplaceWithFirst(cron_hours,
             [moved.dt EXCEPT !.hour = First(cron_hours)])

\* Lines 134-142, r being the outcome of first_common_value
hour_choice(start_dt, cron_hours, r) ==
    IF r.exc = "" THEN [exc |-> "", dt |-> [start_dt EXCEPT !.hour = r.val]]
    ELSE first_hour(AddDays(start_dt, 1), cron_hours)

\* set_next_hour whose except branch sets the hour without moving into the
\* next day
set_next_hour_same_day(start_dt, cron_hours) ==
    IF first_common_value(Range(start_dt.hour, MAX_HOUR), cron_hours).exc = ""
    THEN hour_choice(start_dt, cron_hours,
             first_common_value(Range(start_dt.hour, MAX_HOUR), cron_hours))
    ELSE ReplaceWithFirst(cron_hours,
             [start_dt EXCEPT !.hour = First(cron_hours)])

\* set_next_hour (lines 132-144)
set_next_hour(start_dt, cron_hours) ==
    hour_choice(start_dt, cron_hours,
        first_common_value(Range(start_dt.hour, MAX_HOUR), cron_hours))

\* Lines 153-164, r being the outcome of first_common_value.
\* replace(day=...) is inside the try: a day the month does not have raises
\* ValueError and the except branch runs, as when no day matches.  The
\* addition of line 164 is in the except branch: its OverflowError leaves
\* next_run.
dom_choice(start_dt, cron_dom, r) ==
    IF r.exc = "" /\ ValidDatetime([start_dt EXCEPT !.day = r.val])
    THEN [exc |-> "", dt |-> [start_dt EXCEPT !.day = r.val]]
    ELSE IF cron_dom = <<>> THEN [exc |-> "IndexError", dt |-> start_dt]
    ELSE AddDays(start_dt,
                 monthrange_days(start_dt.year, start_dt.month)
                 - start_dt.day + cron_dom[1])

\* The day-of-month candidate test_dom (lines 151-164)
dom_candidate(start_dt, cron_dom) ==
    dom_choice(start_dt, cron_dom,
        first_common_value(Range(start_dt.day, MAX_DOM), cron_dom))

\* The except branch of the day-of-week candidate (lines 177-179)
next_week(start_dt, cron_dow, wd) ==
    IF cron_dow = <<>> THEN [exc |-> "IndexError", dt |-> start_dt]
    ELSE AddDays(start_dt, MAX_DOW - wd + cron_dow[1])

\* Lines 171-179, moved being the outcome of the addition of line 173.  The
\* addition is inside the try: its OverflowError is caught and the except
\* branch runs, test_dow being still start_dt.
dow_moved(start_dt, cron_dow, wd, moved) ==
    IF moved.exc = "" THEN moved ELSE next_week(start_dt, cron_dow, wd)

\* Lines 168-179, wd being start_dt.weekday() and r the outcome of
\* first_common_value
dow_choice(start_dt, cron_dow, wd, r) ==
    IF r.exc = ""
    THEN dow_moved(start_dt, cron_dow, wd, AddDays(start_dt, r.val - wd))
    ELSE next_week(start_dt, cron_dow, wd)

dow_from(start_dt, cron_dow, wd) ==
    dow_choice(start_dt, cron_dow, wd,
        first_common_value(Range(wd, MAX_DOW), cron_dow))

\* The day-of-week candidate test_dow (lines 166-179)
dow_candidate(start_dt, cron_dow) ==
    dow_from(start_dt, cron_dow, weekday(start_dt))

\* use_dom with the comparison of the two candidates turned around
use_dom_later(dom, dow, test_dom, test_dow) ==
    IF dom # <<"*">> /\ dow = <<"*">> THEN TRUE
    ELSE IF dom = <<"*">> /\ dow # <<"*">> THEN FALSE
    ELSE IF dom # <<"*">> /\ dow # <<"*">> THEN DtLess(test_dow, test_dom)
    ELSE TRUE

\* use_dom (lines 182-196), from the two field texts and the candidates
use_dom(dom, dow, test_dom, test_dow) ==
    IF dom # <<"*">> /\ dow = <<"*">> THEN TRUE
    ELSE IF dom = <<"*">> /\ dow # <<"*">> THEN FALSE
    ELSE IF dom # <<"*">> /\ dow # <<"*">> THEN DtLess(test_dom, test_dow)
    ELSE TRUE

\* Lines 200-207: the chosen candidate and its assert
day_return(cron_dom, cron_dow, test_dom, test_dow, u) ==
    [exc |-> IF (IF u THEN InList(test_dom.day, cron_dom)
                 ELSE InList(weekday(test_dow), cron_dow))
             THEN "" ELSE "AssertionError",
     dt |-> IF u THEN test_dom ELSE test_dow,
     test_dom |-> test_dom, test_dow |-> test_dow, use_dom |-> u]

\* Lines 181-207, d and w being the outcomes of the two candidates; an
\* exception of the day-of-month candidate comes first.
day_choice(start_dt, dom, dow, cron_dom, cron_dow, d, w) ==
    IF d.exc # "" \/ w.exc # ""
    THEN [exc |-> IF d.exc # "" THEN d.exc ELSE w.exc,
          dt |-> start_dt, test_dom |-> start_dt,
          test_dow |-> start_dt, use_dom |-> TRUE]
    ELSE day_return(cron_dom, cron_dow, d.dt, w.dt,
                    use_dom(dom, dow, d.dt, w.dt))

\* set_next_day (lines 146-207)
set_next_day(start_dt, dom, dow, cron_dom, cron_dow) ==
    day_choice(start_dt, dom, dow, cron_dom, cron_dow,
               dom_candidate(start_dt, cron_dom),
               dow_candidate(start_dt, cron_dow))

\* The except branch of set_next_month (lines 221-222)
next_year_first_month(start_dt, cron_months) ==
    ReplaceWithFirst(cron_months,
        [start_dt EXCEPT !.year = start_dt.year + 1,
                         !.month = First(cron_months)])

\* Lines 214-222, r being the outcome of first_common_value.
\* replace(month=...) is inside the try: a month without the current day
\* raises ValueError and the except branch runs, as when no month matches.
month_choice(start_dt, cron_months, r) ==
    IF r.exc = "" /\ ValidDatetime([start_dt EXCEPT !.month = r.val])
    THEN [exc |-> "", dt |-> [start_dt EXCEPT !.month = r.val]]
    ELSE next_year_first_month(start_dt, cron_months)

\* set_next_month that returns the date it was given when the month list
\* is empty
set_next_month_lenient(start_dt, cron_months) ==
    IF cron_months = <<>> THEN [exc |-> "", dt |-> start_dt]
    ELSE month_choice(start_dt, cron_months,
             first_common_value(Range(start_dt.month, MAX_MONTH), cron_months))

\* set_next_month (lines 209-224)
set_next_month(start_dt, cron_months) ==
    month_choice(start_dt, cron_months,
        first_common_value(Range(start_dt.month, MAX_MONTH), cron_months))

\* Lines 242-246: the reference cut to the minute
truncate(start_dt) == [start_dt EXCEPT !.second = 0, !.microsecond = 0]

(* ------------------------------------------------------------------ *)
(* Inputs.                                                              *)
(* ------------------------------------------------------------------ *)
\* number of calendar years the reference instants span, from 2023 on
\* (2024 is a leap year)
MaxYears == 2

\* longest field text of the parser's exhaustive inputs
MaxLen == 4

Line(minute, hour, dom, month, dow) ==
    JoinSp(<<minute, hour, dom, month, dow, <<"j", "o", "b">>>>)

Star == <<"*">>

EveryMinuteLine == Line(Star, Star, Star, Star, Star)

\* 30 2 * * 0
SundayLine == Line(<<"3", "0">>, <<"2">>, Star, Star, <<"0">>)

\* 0 0 1 * *
MonthlyLine == Line(<<"0">>, <<"0">>, <<"1">>, Star, Star)

\* * 5 * * *
FiveOClockLine == Line(Star, <<"5">>, Star, Star, Star)

\* 0 0 * 3 1
MarchWeekdayLine == Line(<<"0">>, <<"0">>, Star, <<"3">>, <<"1">>)

\* 0 12 15 * 1
NoonLine == Line(<<"0">>, <<"1", "2">>, <<"1", "5">>, Star, <<"1">>)

\* 0 0 30 * *
ThirtiethLine == Line(<<"0">>, <<"0">>, <<"3", "0">>, Star, Star)

\* */15 9-17 * * 1-5
OfficeLine ==
    Line(<<"*", "/", "1", "5">>, <<"9", "-", "1", "7">>, Star, Star,
         <<"1", "-", "5">>)

\* 0 0 1 12 *
DecemberLine == Line(<<"0">>, <<"0">>, <<"1">>, <<"1", "2">>, Star)

\* 0 0 31 1,4 *
ThirtyFirstLine ==
    Line(<<"0">>, <<"0">>, <<"3", "1">>, <<"1", ",", "4">>, Star)

\* 30 6 1,15 * 3
BothDaysLine ==
    Line(<<"3", "0">>, <<"6">>, <<"1", ",", "1", "5">>, Star, <<"3">>)

\* lines with one field that resolves to the empty list
EmptyFieldLines ==
    {Line(<<"x">>, Star, Star, Star, Star),
     Line(Star, <<"x">>, Star, Star, Star),
     Line(Star, Star, <<"x">>, Star, Star),
     Line(Star, Star, Star, <<"x">>, Star),
     Line(Star, Star, Star, Star, <<"x">>),
     Line(<<"0">>, <<"0">>, <<"x">>, Star, <<"1">>),
     Line(<<"0">>, <<"0">>, <<"1", "5">>, Star, <<"x">>),
     Line(<<"0">>, <<"0">>, Star, Star, <<"3", "-", "2">>)}

JobLines ==
    {EveryMinuteLine, SundayLine, MonthlyLine, FiveOClockLine,
     MarchWeekdayLine, NoonLine, ThirtiethLine, OfficeLine, DecemberLine,
     ThirtyFirstLine, BothDaysLine} \cup EmptyFieldLines

Years == 2023..(2023 + MaxYears - 1)

Datetime(y, mo, d, h, mi, s, us) ==
    [year |-> y, month |-> mo, day |-> d, hour |-> h, minute |-> mi,
     second |-> s, microsecond |-> us]

\* the turns of month, mid-month, three hours and three minutes of the day,
\* with and without a part below the minute
TurnInstants(years, months) ==
    {Datetime(y, mo, d, h, mi, f[1], f[2]) :
        y \in years, mo \in months,
        d \in {1, 15, 28, 29, 30, 31}, h \in {0, 10, 23}, mi \in {0, 17, 59},
        f \in {<<0, 0>>, <<45, 500000>>}}

\* reference instants: the years, and the last month datetime has
RefInstants == TurnInstants(Years, 1..12) \cup TurnInstants({MAXYEAR}, {12})

\* every day, at three hours and three minutes
DayInstants(years, months) ==
    {Datetime(y, mo, d, h, mi, f[1], f[2]) :
        y \in years, mo \in months, d \in 1..31,
        h \in {0, 10, 23}, mi \in {0, 30, 59},
        f \in {<<0, 0>>, <<45, 500000>>}}

\* every day of the years and of the last month datetime has
DenseInstants == DayInstants(Years, 1..12) \cup DayInstants({MAXYEAR}, {12})

\* every text of at most MaxLen characters over the parser's alphabet
FieldAlphabet == {"*", "/", ",", "-", "0", "1", "2"}

FieldTexts == UNION {[1..n -> FieldAlphabet] : n \in 1..MaxLen}

\* lines with one such text in one of the five positions
FieldLines ==
    {Line(IF k = 1 THEN t ELSE Star, IF k = 2 THEN t ELSE Star,
          IF k = 3 THEN t ELSE Star, IF k = 4 THEN t ELSE Star,
          IF k = 5 THEN t ELSE Star) : t \in FieldTexts, k \in 1..5}

\* lines whose integers carry a sign or whitespace other than the space,
\* and a line whose action ends in such whitespace
SignLines ==
    {Line(<<"+", "\t", "1">>, Star, Star, Star, Star),
     Line(Star, <<"1", "-", "+", "\t", "3">>, Star, Star, Star),
     Line(Star, Star, <<"*", "/", "+", "\t", "2">>, Star, Star),
     Line(Star, Star, Star, <<"*", "/", "-", "\f", "1">>, Star),
     Line(Star, Star, Star, Star, <<"1", "\f">>),
     Line(<<"", "2", ",", "\n", "1", "\r">>, Star, Star, Star, Star),
     Line(<<"+", "+", "1">>, Star, Star, Star, Star),
     Line(Star, <<"*", "/", "+", "\t">>, Star, Star, Star),
     EveryMinuteLine \o <<"\f", "">>}

\* 2024-03-01 00:00, a Friday
FirstOfMarch == Datetime(2024, 3, 1, 0, 0, 0, 0)

(* ------------------------------------------------------------------ *)
(* The state machine: one CronJob is constructed from a line, next_run *)
(* is called on it once and runs its four passes in order.             *)
(* ------------------------------------------------------------------ *)
VARIABLES
    pc,        \* "new", "failed" (the constructor raised), "constructed",
               \* "minute", "hour", "day", "month" (the pass about to run),
               \* "returned", "raised"
    self,      \* the CronJob's attributes
    arg,       \* the start_dt next_run was called with
    start_dt,  \* create_date's start_dt
    day,       \* set_next_day's test_dom, test_dow and use_dom
    log,       \* the values of start_dt create_date logs, "0:" to "4:"
    exc        \* the exception raised, "" when none

vars == <<pc, self, arg, start_dt, day, log, exc>>

NoDate == Datetime(1, 1, 1, 0, 0, 0, 0)

NoJob == Unparsed(<<>>)

Init ==
    /\ pc = "new"
    /\ self = NoJob
    /\ arg = NoDate
    /\ start_dt = NoDate
    /\ day = [test_dom |-> NoDate, test_dow |-> NoDate, use_dom |-> TRUE]
    /\ log = <<>>
    /\ exc = ""

\* The constructor's outcome r: the attributes, or the exception
Constructed(r) ==
    /\ self' = r.self
    /\ exc' = r.exc
    /\ pc' = IF r.exc = "" THEN "constructed" ELSE "failed"

\* CronJob(raw_string), lines 28-43
Construct(lines) ==
    /\ pc = "new"
    /\ \E raw_string \in lines : Constructed(parse(raw_string))
    /\ UNCHANGED <<arg, start_dt, day, log>>

\* job.next_run(start_dt) up to create_date's first log line
Call(instants) ==
    /\ pc = "constructed"
    /\ \E dt \in instants :
        /\ ValidDatetime(dt)
        /\ arg' = dt
        /\ start_dt' = truncate(dt)
        /\ log' = <<truncate(dt)>>
    /\ pc' = "minute"
    /\ UNCHANGED <<self, day, exc>>

\* A pass's outcome r: start_dt is reassigned and logged, or the exception
\* leaves next_run
Passed(r, then) ==
    /\ exc' = r.exc
    /\ pc' = IF r.exc = "" THEN then ELSE "raised"
    /\ start_dt' = IF r.exc = "" THEN r.dt ELSE start_dt
    /\ log' = IF r.exc = "" THEN Append(log, r.dt) ELSE log

\* what set_next_day computed before it returned or its assert failed
DayLocals(r) ==
    day' = IF r.exc \in {"IndexError", "OverflowError"} THEN day
           ELSE [test_dom |-> r.test_dom, test_dow |-> r.test_dow,
                 use_dom |-> r.use_dom]

DayPassed(r) == Passed(r, "month") /\ DayLocals(r)

\* lines 229-230
MinutePass ==
    /\ pc = "minute"
    /\ Passed(set_next_minute(start_dt, self.cron_minutes), "hour")
    /\ UNCHANGED <<self, arg, day>>

\* lines 231-232
HourPass ==
    /\ pc = "hour"
    /\ Passed(set_next_hour(start_dt, self.cron_hours), "day")
    /\ UNCHANGED <<self, arg, day>>

\* lines 233-234
DayPass ==
    /\ pc = "day"
    /\ DayPassed(set_next_day(start_dt, self.dom, self.dow,
                              self.cron_dom, self.cron_dow))
    /\ UNCHANGED <<self, arg>>

\* lines 235-238
MonthPass ==
    /\ pc = "month"
    /\ Passed(set_next_month(start_dt, self.cron_months), "returned")
    /\ UNCHANGED <<self, arg, day>>

Passes == MinutePass \/ HourPass \/ DayPass \/ MonthPass

Next == Construct(JobLines) \/ Call(RefInstants) \/ Passes

Spec == Init /\ [][Next]_vars

\* the job "0 0 1 * *" at every day of the years
NextMonthly == Construct({MonthlyLine}) \/ Call(DenseInstants) \/ Passes

SpecMonthly == Init /\ [][NextMonthly]_vars

\* every field text in every position and the lines with signs and
\* whitespace, at one reference instant
NextParse ==
    Construct(FieldLines \cup SignLines) \/ Call({FirstOfMarch}) \/ Passes

SpecParse == Init /\ [][NextParse]_vars

(* ------------------------------------------------------------------ *)
(* Properties.                                                          *)
(* ------------------------------------------------------------------ *)
Returned == pc = "returned"

DtLeq(a, b) == a = b \/ DtLess(a, b)

AllIn(list, min_value, max_value) ==
    \A i \in 1..Len(list) : min_value <= list[i] /\ list[i] < max_value

NoDuplicates(list) ==
    \A i \in 1..Len(list) : \A j \in 1..Len(list) : list[i] = list[j] => i = j

\* the five fields are well-formed and in range
WellFormed ==
    /\ self.cron_minutes # <<>> /\ AllIn(self.cron_minutes, MIN_MINUTE, MAX_MINUTE)
    /\ self.cron_hours # <<>> /\ AllIn(self.cron_hours, MIN_HOUR, MAX_HOUR)
    /\ self.cron_dom # <<>> /\ AllIn(self.cron_dom, MIN_DOM, MAX_DOM)
    /\ self.cron_months # <<>> /\ AllIn(self.cron_months, MIN_MONTH, MAX_MONTH)
    /\ self.cron_dow # <<>> /\ AllIn(self.cron_dow, MIN_DOW, MAX_DOW)

\* The day rule of a date, the weekday numbered as next_run numbers it
DayRule(dt) ==
    IF self.dom # Star /\ self.dow = Star THEN InList(dt.day, self.cron_dom)
    ELSE IF self.dom = Star /\ self.dow # Star
    THEN InList(weekday(dt), self.cron_dow)
    ELSE InList(dt.day, self.cron_dom) \/ InList(weekday(dt), self.cron_dow)

\* an instant satisfies the five fields at once
Matches(dt) ==
    /\ InList(dt.minute, self.cron_minutes)
    /\ InList(dt.hour, self.cron_hours)
    /\ InList(dt.month, self.cron_months)
    /\ DayRule(dt)

\* C1: for a job whose five fields are well-formed and in range, the
\* instant next_run returns satisfies all five fields at once: minute, hour
\* and month in their sets, and the day rule.
C1_ResultMatchesAllFields == (Returned /\ WellFormed) => Matches(start_dt)

\* a matching instant at or after the truncated reference and before the
\* returned one
EarlierMatch ==
    \E k \in 0..(toordinal(start_dt) - toordinal(arg)) :
        /\ InList(AddDays(arg, k).dt.month, self.cron_months)
        /\ DayRule(AddDays(arg, k).dt)
        /\ \E h \in 0..23 : \E m \in 0..59 :
            /\ InList(h, self.cron_hours)
            /\ InList(m, self.cron_minutes)
            /\ DtLeq(truncate(arg),
                     [truncate(AddDays(arg, k).dt) EXCEPT !.hour = h, !.minute = m])
            /\ DtLess([truncate(AddDays(arg, k).dt) EXCEPT !.hour = h, !.minute = m],
                      start_dt)

\* C2: for a job whose five fields are well-formed and in range, next_run
\* returns the earliest matching instant: no minute at or after the
\* truncated reference and before the returned instant satisfies all five
\* fields.
C2_ResultIsEarliest == (Returned /\ WellFormed) => ~EarlierMatch

\* C3: the returned instant is at or after the reference truncated to the
\* minute, and none of the four passes moves the instant backwards: the
\* logged values of start_dt, from the truncated reference on, never
\* decrease.
C3_NeverBackwards ==
    /\ log # <<>> => log[1] = truncate(arg)
    /\ \A i \in 1..(Len(log) - 1) : DtLeq(log[i], log[i + 1])
    /\ Returned => start_dt = log[5] /\ DtLeq(truncate(arg), start_dt)

\* a returned run in which the reference had seconds and each of the four
\* passes moved the instant
C3_Witness ==
    /\ Returned
    /\ arg.second # 0
    /\ \A i \in 1..4 : DtLess(log[i], log[i + 1])

\* 02:30 on the first Sunday at or after the instant ref
At0230(dt) == [dt EXCEPT !.hour = 2, !.minute = 30]

IsSunday0230From(ref, k) ==
    /\ AddDays(ref, k).exc = ""
    /\ weekday(AddDays(ref, k).dt) = 6
    /\ DtLeq(ref, At0230(AddDays(ref, k).dt))

IsFirstSunday0230(ref, dt) ==
    \E k \in 0..7 :
        /\ IsSunday0230From(ref, k)
        /\ \A j \in 0..(k - 1) : ~IsSunday0230From(ref, j)
        /\ dt = At0230(AddDays(ref, k).dt)

\* C4: for the job "30 2 * * 0" next_run returns 02:30 on the first Sunday
\* at or after the reference; with reference 2024-03-01 00:00 it returns
\* 2024-03-03 02:30.
C4_SundayJob ==
    (Returned /\ self.raw_string = SundayLine)
        => /\ IsFirstSunday0230(truncate(arg), start_dt)
           /\ arg = FirstOfMarch => start_dt = Datetime(2024, 3, 3, 2, 30, 0, 0)

\* 00:00 on the 1st of the month after the instant's month
FirstOfNextMonth(dt) ==
    IF dt.month = 12 THEN Datetime(dt.year + 1, 1, 1, 0, 0, 0, 0)
    ELSE Datetime(dt.year, dt.month + 1, 1, 0, 0, 0, 0)

StartOfMonth(dt) == dt.day = 1 /\ dt.hour = 0 /\ dt.minute = 0

\* C5 as stated: for the job "0 0 1 * *" and a reference that is not exactly
\* 00:00 on the 1st of a month, next_run returns 00:00 on the 1st of the
\* month following the reference's month.
C5_MonthlyJobAnyReference ==
    (Returned /\ self.raw_string = MonthlyLine
     /\ ~(StartOfMonth(arg) /\ arg.second = 0 /\ arg.microsecond = 0))
        => start_dt = FirstOfNextMonth(arg)

\* the month after the instant's month is one datetime has
HasNextMonth(dt) == dt.year < MAXYEAR \/ dt.month < 12

\* C5 amended: for the job "0 0 1 * *" and a reference before December 9999
\* that, cut to the minute, is not 00:00 on the 1st of a month, next_run
\* raises nothing and returns 00:00 on the 1st of the month following the
\* reference's month.
C5_MonthlyJob ==
    (self.raw_string = MonthlyLine /\ pc \notin {"new", "constructed"}
     /\ HasNextMonth(arg) /\ ~StartOfMonth(truncate(arg)))
        => /\ pc # "raised"
           /\ Returned => start_dt = FirstOfNextMonth(arg)

\* the spec's example: reference 2024-01-15 10:00, result 2024-02-01 00:00
C5_Witness ==
    /\ Returned
    /\ self.raw_string = MonthlyLine
    /\ arg = Datetime(2024, 1, 15, 10, 0, 0, 0)
    /\ start_dt = Datetime(2024, 2, 1, 0, 0, 0, 0)

\* C6: when one of a job's five resolved sets is empty next_run ends in an
\* error and returns no date, whichever field is the empty one: the
\* exception is raised no later than the pass that reads the empty set, so
\* no later pass runs and nothing is returned.
C6_EmptySetRaises ==
    pc \notin {"new", "failed"} =>
        /\ self.cron_minutes = <<>> => pc \in {"constructed", "minute", "raised"}
        /\ self.cron_hours = <<>>
               => pc \in {"constructed", "minute", "hour", "raised"}
        /\ (self.cron_dom = <<>> \/ self.cron_dow = <<>>)
               => pc \in {"constructed", "minute", "hour", "day", "raised"}
        /\ self.cron_months = <<>> => ~Returned

\* the day pass raised on an empty day-of-month set although day-of-week is
\* restricted and not empty
C6_Witness ==
    /\ pc = "raised"
    /\ exc = "IndexError"
    /\ Len(log) = 3
    /\ self.cron_dom = <<>>
    /\ self.dow # Star
    /\ self.cron_dow # <<>>

FieldLists ==
    <<[text |-> self.minute, list |-> self.cron_minutes,
       min |-> MIN_MINUTE, max |-> MAX_MINUTE],
      [text |-> self.hour, list |-> self.cron_hours,
       min |-> MIN_HOUR, max |-> MAX_HOUR],
      [text |-> self.dom, list |-> self.cron_dom,
       min |-> MIN_DOM, max |-> MAX_DOM],
      [text |-> self.month, list |-> self.cron_months,
       min |-> MIN_MONTH, max |-> MAX_MONTH],
      [text |-> self.dow, list |-> self.cron_dow,
       min |-> MIN_DOW, max |-> MAX_DOW]>>

\* the text is a wildcard or a step, as start_parse tells them
IsWildcardOrStep(text) == text = Star \/ HasSub(text, <<"*", "/">>)

\* C7 as stated: every non-empty resolved list is sorted ascending, holds no
\* duplicate, and every value in it lies in [min, max).
C7_SortedDistinctInRange ==
    pc = "constructed" =>
        \A k \in 1..5 :
            FieldLists[k].list # <<>> =>
                /\ IsAscending(FieldLists[k].list)
                /\ NoDuplicates(FieldLists[k].list)
                /\ AllIn(FieldLists[k].list, FieldLists[k].min, FieldLists[k].max)

\* C7 amended: every non-empty resolved list is sorted ascending; the list
\* of a wildcard or of a step also holds no duplicate and only values in
\* [min, max).
C7_SortedAndExpansionsInRange ==
    pc = "constructed" =>
        \A k \in 1..5 :
            FieldLists[k].list # <<>> =>
                /\ IsAscending(FieldLists[k].list)
                /\ IsWildcardOrStep(FieldLists[k].text) =>
                       /\ NoDuplicates(FieldLists[k].list)
                       /\ AllIn(FieldLists[k].list, FieldLists[k].min,
                                FieldLists[k].max)

\* a comma list written out of order is resolved in order
C7_Witness ==
    /\ pc = "constructed"
    /\ self.minute = <<"2", ",", "1">>
    /\ self.cron_minutes = <<1, 2>>

\* the text is */N with an integer N that is zero or negative
NonPositiveStep(text) ==
    /\ Len(text) >= 3
    /\ SubSeq(text, 1, 2) = <<"*", "/">>
    /\ PyInt(SubSeq(text, 3, Len(text))).exc = ""
    /\ PyInt(SubSeq(text, 3, Len(text))).val <= 0

\* C8: a step field */N with N zero or negative fails at construction: no
\* job is constructed from a line with such a field.
C8_NonPositiveStepRejected ==
    pc \notin {"new", "failed"} =>
        \A k \in 1..5 : ~NonPositiveStep(FieldLists[k].text)

\* C9: the day pass returns the day-of-month candidate when day-of-week is
\* "*", the day-of-week candidate when day-of-month is "*" and day-of-week
\* is not, and when neither is "*" the earlier of the two candidates, never
\* a date later than either.
C9_DayPrecedence ==
    Len(log) >= 4 =>
        /\ self.dow = Star => log[4] = day.test_dom
        /\ (self.dom = Star /\ self.dow # Star) => log[4] = day.test_dow
        /\ (self.dom # Star /\ self.dow # Star) =>
               /\ log[4] \in {day.test_dom, day.test_dow}
               /\ DtLeq(log[4], day.test_dom)
               /\ DtLeq(log[4], day.test_dow)

\* both fields restricted, and the day-of-week candidate is the earlier one
C9_Witness ==
    /\ Returned
    /\ self.dom # Star
    /\ self.dow # Star
    /\ DtLess(day.test_dow, day.test_dom)
    /\ log[4] = day.test_dow

\* the day pass got as far as choosing between its candidates
DayChosen == Len(log) >= 4 \/ (Len(log) = 3 /\ exc = "AssertionError")

\* C10: for a job whose day-of-month values all lie in 1..31, whenever the
\* day-of-month candidate is the one selected its day is in the resolved
\* day-of-month set: the assert of the day pass never fails.
C10_DomAssertHolds ==
    (DayChosen /\ day.use_dom /\ AllIn(self.cron_dom, 1, 32))
        => /\ InList(day.test_dom.day, self.cron_dom)
           /\ exc # "AssertionError"

====
